---- MODULE Spec2Model ----
(***************************************************************************)
(* TitanPose (src/main.py): per-frame pose analytics.  The run loop        *)
(* acquires a frame, ticks the alert box while drawing the HUD, then       *)
(* processes every detected person: torso inclination (fall alert) and     *)
(* knee angle (squat counter, one record per tracking identity).           *)
(*                                                                         *)
(* Angles are kept in thousandths of a degree (integers).  Landmark        *)
(* coordinates are pixel positions on the lattice {0, 100, 200}^2, for     *)
(* which arctan2 is tabulated exactly to that resolution.                  *)
(***************************************************************************)
EXTENDS Integers, Sequences, FiniteSets, TLC

VARIABLES
    pc,             \* position of run(): "acquire", "hud", "pose", "show", "done"
    results,        \* the frame's detection results (run()'s local `results`)
    i,              \* process_pose's loop index (persons already processed)
    squat_state,    \* self.squat_state : identity -> "UP" | "DOWN"
    squat_count,    \* self.squat_count : identity -> repetitions
    alert_timer,    \* self.alert_timer
    current_alert,  \* self.current_alert ("" or the message)
    ticks,          \* HUD ticks since the alert was last raised (history, capped)
    calls,          \* log of update(id, knee_angle) -> phase, count (kept under SpecSquat)
    args,           \* the points <<a, b, c>> given to calculate_angle (SpecAngle)
    ret             \* what calculate_angle returned for args, then for <<c, b, a>>

vars == <<pc, results, i, squat_state, squat_count, alert_timer, current_alert, ticks, calls, args, ret>>

----------------------------------------------------------------------------
(* Configuration and literals of the source *)

FALL_THRESHOLD == 45
SQUAT_THRESHOLD == 110
UPPER_THRESHOLD == 160
ALERT_DURATION == 30
NUM_LANDMARKS == 17
UNTRACKED == -1

(* Bounds of the model *)
MaxCount == 2       \* repetitions counted per identity
MaxUpdates == 4     \* length of the update history kept under SpecSquat
MaxPersons == 2     \* persons per frame

Deg(d) == d * 1000
Abs(x) == IF x < 0 THEN -x ELSE x

----------------------------------------------------------------------------
(* Geometry *)

\* arctan(p/q) in thousandths of a degree for the ratios below 1 that the
\* lattice produces
AtanTable ==
    { <<1, 4, 14036>>, <<1, 3, 18435>>, <<1, 2, 26565>>,
      <<2, 3, 33690>>, <<3, 4, 36870>> }

AtanLookup(p, q) ==
    (CHOOSE e \in AtanTable : e[1] * q = e[2] * p)[3]

\* arctan(p/q) for p, q >= 0, with arctan2(0, 0) = 0
AtanFirstQuadrant(p, q) ==
    IF p = 0 THEN 0
    ELSE IF q = 0 THEN 90000
    ELSE IF p = q THEN 45000
    ELSE IF p < q THEN AtanLookup(p, q)
    ELSE 90000 - AtanLookup(q, p)

\* np.arctan2(y, x) * 180 / np.pi, math.degrees(math.atan2(y, x))
Atan2Deg(y, x) ==
    IF x >= 0 /\ y >= 0 THEN AtanFirstQuadrant(y, x)
    ELSE IF x < 0 /\ y >= 0 THEN 180000 - AtanFirstQuadrant(y, -x)
    ELSE IF x >= 0 /\ y < 0 THEN -AtanFirstQuadrant(-y, x)
    ELSE -(180000 - AtanFirstQuadrant(-y, -x))

calculate_angle_no_wrap(a, b, c) ==
    Abs(Atan2Deg(c[2] - b[2], c[1] - b[1]) - Atan2Deg(a[2] - b[2], a[1] - b[1]))

calculate_angle_signed(a, b, c) ==
    LET angle == Atan2Deg(c[2] - b[2], c[1] - b[1]) - Atan2Deg(a[2] - b[2], a[1] - b[1])
    IN IF angle > Deg(180) THEN Deg(360) - angle ELSE angle

\* Geometry.calculate_angle(a, b, c); a point is <<x, y>>
calculate_angle(a, b, c) ==
    LET degrees == Atan2Deg(c[2] - b[2], c[1] - b[1]) - Atan2Deg(a[2] - b[2], a[1] - b[1])
        angle == Abs(degrees)
    IN IF angle > 180000 THEN 360000 - angle ELSE angle

----------------------------------------------------------------------------
(* Squat counter: process_pose, "4. ANALYSIS: SQUAT COUNTER" *)

GoesDown_inclusive(knee_angle) == knee_angle <= Deg(SQUAT_THRESHOLD)

\* if knee_angle < Config.SQUAT_THRESHOLD
GoesDown(knee_angle) == knee_angle < Deg(SQUAT_THRESHOLD)

GoesUp_inclusive(knee_angle, phase) == knee_angle >= Deg(UPPER_THRESHOLD) /\ phase = "DOWN"

GoesUp_any_phase(knee_angle, phase) == knee_angle > Deg(UPPER_THRESHOLD)

\* if knee_angle > 160 and self.squat_state[person_id] == "DOWN"
GoesUp(knee_angle, phase) == knee_angle > Deg(UPPER_THRESHOLD) /\ phase = "DOWN"

\* the dictionary d with d[k] = v stored
Put(d, k, v) == [x \in DOMAIN d \cup {k} |-> IF x = k THEN v ELSE d[x]]

SquatUpdate_shared(ss, sc, person_id, knee_angle) ==
    LET ss0 == IF person_id \in DOMAIN ss THEN ss ELSE Put(ss, person_id, "UP")
        sc0 == IF person_id \in DOMAIN ss THEN sc ELSE Put(sc, person_id, 0)
        ss1 == IF GoesDown(knee_angle) THEN Put(ss0, person_id, "DOWN") ELSE ss0
        up  == GoesUp(knee_angle, ss1[person_id])
    IN [state |-> IF up THEN [k \in DOMAIN ss1 |-> "UP"] ELSE ss1,
        count |-> IF up THEN [k \in DOMAIN sc0 |-> sc0[k] + 1] ELSE sc0]

SquatUpdate_new_down(ss, sc, person_id, knee_angle) ==
    LET ss0 == IF person_id \in DOMAIN ss THEN ss ELSE Put(ss, person_id, "DOWN")
        sc0 == IF person_id \in DOMAIN ss THEN sc ELSE Put(sc, person_id, 0)
        ss1 == IF GoesDown(knee_angle) THEN Put(ss0, person_id, "DOWN") ELSE ss0
        up  == GoesUp(knee_angle, ss1[person_id])
    IN [state |-> IF up THEN Put(ss1, person_id, "UP") ELSE ss1,
        count |-> IF up THEN Put(sc0, person_id, sc0[person_id] + 1) ELSE sc0]

\* lines 133-143: the records after one person's knee angle is applied
SquatUpdate(ss, sc, person_id, knee_angle) ==
    LET ss0 == IF person_id \in DOMAIN ss THEN ss ELSE Put(ss, person_id, "UP")
        sc0 == IF person_id \in DOMAIN ss THEN sc ELSE Put(sc, person_id, 0)
        ss1 == IF GoesDown(knee_angle) THEN Put(ss0, person_id, "DOWN") ELSE ss0
        up  == GoesUp(knee_angle, ss1[person_id])
    IN [state |-> IF up THEN Put(ss1, person_id, "UP") ELSE ss1,
        count |-> IF up THEN Put(sc0, person_id, sc0[person_id] + 1) ELSE sc0]

----------------------------------------------------------------------------
(* Initial state: TitanPoseSystem.__init__ *)

EmptyDict == [x \in {} |-> 0]
\* the tick history is not kept beyond this many ticks
TicksCap == ALERT_DURATION + 2
NoResults == [keypoints |-> "none", tracked |-> FALSE, ids |-> <<>>, persons |-> <<>>]

Init ==
    /\ pc = "acquire"
    /\ results = NoResults
    /\ i = 0
    /\ squat_state = EmptyDict
    /\ squat_count = EmptyDict
    /\ alert_timer = 0
    /\ current_alert = ""
    /\ ticks = TicksCap
    /\ calls = <<>>
    /\ args = <<>>
    /\ ret = <<>>

----------------------------------------------------------------------------
(* The squat tracker driven directly by knee angles *)

TrackIds == {1, 2}

\* knee angles below, on, inside and above the hysteresis band
KneeAngles == { Deg(100), Deg(110), Deg(115), Deg(155), Deg(160), Deg(170) }

\* one pass of lines 133-143 for identity person_id with the given knee angle
Update(person_id, knee_angle) ==
    LET r == SquatUpdate(squat_state, squat_count, person_id, knee_angle)
    IN /\ Len(calls) < MaxUpdates
       /\ \A k \in DOMAIN r.count : r.count[k] <= MaxCount
       /\ squat_state' = r.state
       /\ squat_count' = r.count
       /\ calls' = Append(calls, [id |-> person_id, angle |-> knee_angle,
                                  phase |-> r.state[person_id],
                                  count |-> r.count[person_id]])
       /\ UNCHANGED <<pc, results, i, alert_timer, current_alert, ticks, args, ret>>

NextSquat == \E person_id \in TrackIds, knee_angle \in KneeAngles : Update(person_id, knee_angle)

SpecSquat == Init /\ [][NextSquat]_vars

----------------------------------------------------------------------------
(* Fall detection and the alert box *)

Midpoint(p, q) == << (p[1] + q[1]) \div 2, (p[2] + q[2]) \div 2 >>

\* lines 115-121: torso angle against the image's vertical axis
Inclination(kps) ==
    LET mid_shoulder == Midpoint(kps.l_shldr, kps.r_shldr)
        mid_hip == Midpoint(kps.l_hip, kps.r_hip)
        dx == mid_shoulder[1] - mid_hip[1]
        dy == mid_shoulder[2] - mid_hip[2]
    IN Abs(Atan2Deg(dx, dy))

KneeAngle_guarded(kps) ==
    IF kps.r_hip = <<0, 0>> /\ kps.r_knee = <<0, 0>> /\ kps.r_ankle = <<0, 0>>
    THEN Deg(180)
    ELSE calculate_angle(kps.r_hip, kps.r_knee, kps.r_ankle)

\* line 131
KneeAngle(kps) == calculate_angle(kps.r_hip, kps.r_knee, kps.r_ankle)

FallCondition_inclusive(inclination) == inclination >= Deg(FALL_THRESHOLD)

\* if inclination > Config.FALL_THRESHOLD
FallCondition(inclination) == inclination > Deg(FALL_THRESHOLD)

\* f"FALL DETECTED (ID {person_id})"
AlertMessage(person_id) ==
    CASE person_id = 1 -> "FALL DETECTED (ID 1)"
      [] person_id = 2 -> "FALL DETECTED (ID 2)"
      [] person_id = 3 -> "FALL DETECTED (ID 3)"
      [] person_id = UNTRACKED -> "FALL DETECTED (ID -1)"

RaiseAlert_first_wins(alert, timer, person_id) ==
    IF alert # "" /\ timer > 0 THEN [alert |-> alert, timer |-> timer]
    ELSE [alert |-> AlertMessage(person_id), timer |-> ALERT_DURATION]

\* lines 125-126
RaiseAlert(alert, timer, person_id) ==
    [alert |-> AlertMessage(person_id), timer |-> ALERT_DURATION]

Tick_clears_at_zero(alert, timer) ==
    IF alert # "" /\ timer > 1 THEN [alert |-> alert, timer |-> timer - 1]
    ELSE [alert |-> "", timer |-> 0]

Tick_no_floor(alert, timer) ==
    IF alert # "" THEN [alert |-> alert, timer |-> timer - 1]
    ELSE [alert |-> "", timer |-> timer]

Tick_stuck(alert, timer) ==
    IF alert # "" /\ timer > 0 THEN [alert |-> alert, timer |-> timer]
    ELSE [alert |-> "", timer |-> timer]

\* lines 68-76: the alert box of draw_cyberpunk_hud
Tick(alert, timer) ==
    IF alert # "" /\ timer > 0 THEN [alert |-> alert, timer |-> timer - 1]
    ELSE [alert |-> "", timer |-> timer]

----------------------------------------------------------------------------
(* Frames: what model.track returns *)

Kps(n, ls, rs, lh, rh, k, a) ==
    [len |-> n, l_shldr |-> ls, r_shldr |-> rs, l_hip |-> lh, r_hip |-> rh,
     r_knee |-> k, r_ankle |-> a]

\* shoulders straight above the hips: mid-shoulder (100, 50), mid-hip (100, 150)
Standing == Kps(NUM_LANDMARKS, <<100, 0>>, <<100, 100>>, <<100, 100>>, <<100, 200>>,
                <<100, 100>>, <<100, 0>>)
\* shoulders straight below the hips: mid-shoulder (100, 150), mid-hip (100, 50)
HeadDown == Kps(NUM_LANDMARKS, <<100, 100>>, <<100, 200>>, <<100, 100>>, <<100, 0>>,
                <<100, 100>>, <<100, 200>>)
\* mid-shoulder (200, 200), mid-hip (100, 100): dx = dy = 100
Diagonal == Kps(NUM_LANDMARKS, <<200, 200>>, <<200, 200>>, <<100, 200>>, <<100, 0>>,
                <<100, 100>>, <<100, 200>>)
\* mid-shoulder (200, 150), mid-hip (100, 100): dx = 100, dy = 50
Leaning == Kps(NUM_LANDMARKS, <<200, 100>>, <<200, 200>>, <<100, 200>>, <<100, 0>>,
               <<100, 100>>, <<100, 200>>)
\* an observation with fewer than 17 landmarks
Truncated == Kps(NUM_LANDMARKS - 1, <<100, 0>>, <<100, 100>>, <<100, 100>>, <<100, 200>>,
                 <<100, 100>>, <<100, 0>>)

\* torso of HeadDown (inclination 0), knee bent to 90 degrees
HeadDownSquat == Kps(NUM_LANDMARKS, <<100, 100>>, <<100, 200>>, <<100, 100>>, <<100, 0>>,
                     <<100, 100>>, <<200, 100>>)
\* torso of HeadDown, knee at 135 degrees
HeadDownHalf == Kps(NUM_LANDMARKS, <<100, 100>>, <<100, 200>>, <<100, 100>>, <<100, 0>>,
                    <<100, 100>>, <<200, 200>>)
\* every landmark reported at the origin (occluded joints)
Origin == Kps(NUM_LANDMARKS, <<0, 0>>, <<0, 0>>, <<0, 0>>, <<0, 0>>, <<0, 0>>, <<0, 0>>)

\* persons that differ in their right leg and raise no alert
GymPoses == {HeadDown, HeadDownSquat, HeadDownHalf, Origin}

FallPoses == {Standing, HeadDown, Diagonal, Leaning, Truncated}

\* sequences of n elements of S
Tuples(S, n) == [1..n -> S]

\* boxes.id: None (tracked = FALSE), or one distinct identity per box
IdChoices(n) ==
    { [tracked |-> FALSE, ids |-> <<>>] } \cup
    { [tracked |-> TRUE, ids |-> t] :
        t \in {u \in Tuples(TrackIds, n) : \A a, b \in 1..n : a # b => u[a] # u[b]} }

\* results of one frame with persons drawn from Poses
FramesOf(Poses) ==
    {NoResults} \cup
    UNION { { [keypoints |-> "data", tracked |-> d.tracked, ids |-> d.ids, persons |-> ps] :
                d \in IdChoices(n), ps \in Tuples(Poses, n) } : n \in 0..MaxPersons }

Skipped_never(kps) == FALSE

\* line 100: if len(kps) < 17: continue
Skipped(kps) == kps.len < NUM_LANDMARKS

Ids_per_person(res) ==
    IF ~res.tracked THEN [k \in 1..Len(res.persons) |-> -k] ELSE res.ids

\* lines 87-90
Ids(res) ==
    IF ~res.tracked THEN [k \in 1..Len(res.persons) |-> UNTRACKED] ELSE res.ids

----------------------------------------------------------------------------
(* The run loop *)

\* lines 162-167: read a frame (or fail) and run the tracker on it
Acquire(Frames) ==
    /\ pc = "acquire"
    /\ \/ /\ pc' = "done"
          /\ UNCHANGED results
       \/ /\ pc' = "hud"
          /\ results' \in Frames
    /\ UNCHANGED <<i, squat_state, squat_count, alert_timer, current_alert, ticks, calls, args, ret>>

DrawHud_only_with_persons ==
    /\ pc = "hud"
    /\ LET t == IF results.keypoints = "none"
                THEN [alert |-> current_alert, timer |-> alert_timer]
                ELSE Tick(current_alert, alert_timer)
       IN /\ current_alert' = t.alert
          /\ alert_timer' = t.timer
    /\ ticks' = IF ticks < TicksCap THEN ticks + 1 ELSE ticks
    /\ pc' = "pose"
    /\ i' = 0
    /\ UNCHANGED <<results, squat_state, squat_count, calls, args, ret>>

\* line 173: draw_cyberpunk_hud; process_pose is entered next, at its first person
DrawHud ==
    /\ pc = "hud"
    /\ LET t == Tick(current_alert, alert_timer)
       IN /\ current_alert' = t.alert
          /\ alert_timer' = t.timer
    /\ ticks' = IF ticks < TicksCap THEN ticks + 1 ELSE ticks
    /\ pc' = "pose"
    /\ i' = 0
    /\ UNCHANGED <<results, squat_state, squat_count, calls, args, ret>>

\* lines 80-81
EarlyReturn ==
    /\ pc = "pose"
    /\ results.keypoints = "none"
    /\ pc' = "show"
    /\ UNCHANGED <<results, i, squat_state, squat_count, alert_timer, current_alert, ticks, calls, args, ret>>

\* lines 92-154: one iteration of the loop over the persons
ProcessPerson ==
    /\ pc = "pose"
    /\ results.keypoints = "data"
    /\ i < Len(results.persons)
    /\ i' = i + 1
    /\ LET kps == results.persons[i + 1]
           person_id == Ids(results)[i + 1]
       IN IF Skipped(kps)
          THEN UNCHANGED <<squat_state, squat_count, alert_timer, current_alert, ticks>>
          ELSE LET fall == FallCondition(Inclination(kps))
                   al == RaiseAlert(current_alert, alert_timer, person_id)
                   r == SquatUpdate(squat_state, squat_count, person_id, KneeAngle(kps))
               IN /\ current_alert' = IF fall THEN al.alert ELSE current_alert
                  /\ alert_timer' = IF fall THEN al.timer ELSE alert_timer
                  /\ ticks' = IF fall THEN 0 ELSE ticks
                  /\ \A k \in DOMAIN r.count : r.count[k] <= MaxCount
                  /\ squat_state' = r.state
                  /\ squat_count' = r.count
    /\ UNCHANGED <<pc, results, calls, args, ret>>

Return_ticks_alert ==
    /\ pc = "pose"
    /\ results.keypoints = "data"
    /\ i = Len(results.persons)
    /\ pc' = "show"
    /\ LET t == Tick(current_alert, alert_timer)
       IN /\ current_alert' = t.alert
          /\ alert_timer' = t.timer
    /\ UNCHANGED <<results, i, squat_state, squat_count, ticks, calls, args, ret>>

\* line 156
Return ==
    /\ pc = "pose"
    /\ results.keypoints = "data"
    /\ i = Len(results.persons)
    /\ pc' = "show"
    /\ UNCHANGED <<results, i, squat_state, squat_count, alert_timer, current_alert, ticks, calls, args, ret>>

\* lines 179-182: show the frame; 'q' ends the loop
Show ==
    /\ pc = "show"
    /\ pc' \in {"acquire", "done"}
    /\ UNCHANGED <<results, i, squat_state, squat_count, alert_timer, current_alert, ticks, calls, args, ret>>

Next ==
    \/ Acquire(FramesOf(FallPoses))
    \/ DrawHud
    \/ EarlyReturn
    \/ ProcessPerson
    \/ Return
    \/ Show

\* the run loop on frames whose persons differ in their torso
Spec == Init /\ [][Next]_vars

NextGym ==
    \/ Acquire(FramesOf(GymPoses))
    \/ DrawHud
    \/ EarlyReturn
    \/ ProcessPerson
    \/ Return
    \/ Show

\* the run loop on frames whose persons differ in their right leg
SpecGym == Init /\ [][NextGym]_vars

\* a leaning, an unleaning and a short observation
LivePoses == {Leaning, HeadDown, Truncated}

\* frames of a stream on which the tracker assigns no identities
LiveFrames == {f \in FramesOf(LivePoses) : ~f.tracked}

NextLive ==
    \/ Acquire(LiveFrames)
    \/ DrawHud
    \/ EarlyReturn
    \/ ProcessPerson
    \/ Return
    \/ Show

\* the run loop as a sequential program: while it has a next statement, that
\* statement is executed
SpecLive == Init /\ [][NextLive]_vars /\ WF_vars(NextLive)

----------------------------------------------------------------------------
(* Geometry.calculate_angle on its own *)

Coords == {0, 100, 200}
Points == Coords \X Coords

InitAngle ==
    /\ pc = "acquire"
    /\ results = NoResults
    /\ i = 0
    /\ squat_state = EmptyDict
    /\ squat_count = EmptyDict
    /\ alert_timer = 0
    /\ current_alert = ""
    /\ ticks = TicksCap
    /\ calls = <<>>
    /\ args \in Points \X Points \X Points
    /\ ret = <<>>

\* calculate_angle(a, b, c)
CallAngle ==
    /\ Len(ret) = 0
    /\ ret' = <<calculate_angle(args[1], args[2], args[3])>>
    /\ UNCHANGED <<pc, results, i, squat_state, squat_count, alert_timer, current_alert,
                   ticks, calls, args>>

\* calculate_angle(c, b, a)
CallSwapped ==
    /\ Len(ret) = 1
    /\ ret' = Append(ret, calculate_angle(args[3], args[2], args[1]))
    /\ UNCHANGED <<pc, results, i, squat_state, squat_count, alert_timer, current_alert,
                   ticks, calls, args>>

NextAngle == CallAngle \/ CallSwapped

SpecAngle == InitAngle /\ [][NextAngle]_vars

----------------------------------------------------------------------------
(* Reading the update log *)

\* the log entries of one identity, in order
CallsOf(id) == SelectSeq(calls, LAMBDA c : c.id = id)

InBand(a) == Deg(SQUAT_THRESHOLD) <= a /\ a <= Deg(UPPER_THRESHOLD)

\* phase and count of an identity after its first m log entries
PhaseAt(h, m) == IF m = 0 THEN "UP" ELSE h[m].phase
CountAt(h, m) == IF m = 0 THEN 0 ELSE h[m].count

\* entries m+1..Len(h) go below 110 (first at j), later above 160 (first at k),
\* and never below 110 after k; nothing leaves the band before j
SingleCrossing(h, m) ==
    \E j, k \in (m + 1)..Len(h) :
        /\ j < k
        /\ h[j].angle < Deg(SQUAT_THRESHOLD)
        /\ h[k].angle > Deg(UPPER_THRESHOLD)
        /\ \A x \in (m + 1)..(j - 1) : InBand(h[x].angle)
        /\ \A x \in (j + 1)..(k - 1) : h[x].angle <= Deg(UPPER_THRESHOLD)
        /\ \A x \in (k + 1)..Len(h) : h[x].angle >= Deg(SQUAT_THRESHOLD)

\* C1: an identity whose knee-angle sequence goes below 110 and afterwards
\* above 160 once (never below 110 again after that) has its repetition count
\* raised by exactly one over the sequence, whatever the values in between.
C1_SingleCrossingAddsOne ==
    \A id \in TrackIds :
        LET h == CallsOf(id)
        IN \A m \in 0..Len(h) :
               SingleCrossing(h, m) =>
                   /\ id \in DOMAIN squat_count
                   /\ squat_count[id] = h[Len(h)].count
                   /\ squat_count[id] = CountAt(h, m) + 1

\* a crossing with values inside the band in between, started from phase DOWN
\* with one repetition already counted
C1_Witness ==
    \E id \in TrackIds :
        LET h == CallsOf(id)
        IN /\ Len(h) = 4
           /\ h[1].angle < Deg(SQUAT_THRESHOLD)
           /\ h[2].angle > Deg(UPPER_THRESHOLD)
           /\ SingleCrossing(h, 2)
           /\ squat_count[id] = 2

\* C2: updates whose knee angles all lie in the band 110..160 (boundaries
\* included) change neither the phase nor the count of the identity.
C2_BandChangesNothing ==
    \A id \in TrackIds :
        LET h == CallsOf(id)
        IN \A m \in 0..Len(h) :
               (m < Len(h) /\ \A x \in (m + 1)..Len(h) : InBand(h[x].angle)) =>
                   /\ squat_state[id] = PhaseAt(h, m)
                   /\ squat_count[id] = CountAt(h, m)
                   /\ h[Len(h)].phase = PhaseAt(h, m)
                   /\ h[Len(h)].count = CountAt(h, m)

\* an identity in phase DOWN that saw 110, 160 and 115 afterwards
C2_Witness ==
    \E id \in TrackIds :
        LET h == CallsOf(id)
        IN /\ Len(h) = 4
           /\ h[1].phase = "DOWN"
           /\ h[2].angle = Deg(SQUAT_THRESHOLD)
           /\ h[3].angle = Deg(UPPER_THRESHOLD)
           /\ h[4].angle = Deg(115)
           /\ squat_state[id] = "DOWN"

\* C3: the count of an identity never decreases; one update changes it by 0
\* or by exactly 1, and by 1 exactly when the update moves the phase from
\* DOWN to UP, which is exactly when the angle is above 160 in phase DOWN.
C3_CountStepsWithPhase ==
    \A id \in TrackIds :
        LET h == CallsOf(id)
        IN \A m \in 1..Len(h) :
               LET d  == h[m].count - CountAt(h, m - 1)
                   up == PhaseAt(h, m - 1) = "DOWN" /\ h[m].phase = "UP"
               IN /\ d \in {0, 1}
                  /\ (d = 1) <=> up
                  /\ up <=> (h[m].angle > Deg(UPPER_THRESHOLD) /\ PhaseAt(h, m - 1) = "DOWN")
                  /\ h[m].phase \in {"UP", "DOWN"}
                  /\ (m = Len(h)) => (squat_count[id] = h[m].count /\ squat_state[id] = h[m].phase)

\* an identity counted twice: UP -> DOWN -> UP -> DOWN -> UP
C3_Witness ==
    \E id \in TrackIds :
        LET h == CallsOf(id)
        IN /\ Len(h) = 4
           /\ h[1].phase = "DOWN" /\ h[2].phase = "UP"
           /\ h[3].phase = "DOWN" /\ h[4].phase = "UP"
           /\ squat_count[id] = 2

\* phase and count of one identity when only its own angles are applied
RECURSIVE Alone(_, _, _)
Alone(id, h, n) ==
    IF n = 0 THEN [state |-> EmptyDict, count |-> EmptyDict]
    ELSE LET r == Alone(id, h, n - 1)
         IN SquatUpdate(r.state, r.count, id, h[n].angle)

C4_FinalAsAlone ==
    \A id \in TrackIds :
        LET h == CallsOf(id)
            r == Alone(id, h, Len(h))
        IN /\ (id \in DOMAIN squat_state) <=> (Len(h) > 0)
           /\ DOMAIN squat_count = DOMAIN squat_state
           /\ Len(h) > 0 => /\ squat_state[id] = r.state[id]
                            /\ squat_count[id] = r.count[id]

C4_OthersUntouched ==
    (calls' # calls) =>
        \A b \in TrackIds \ {calls'[Len(calls')].id} :
            /\ (b \in DOMAIN squat_state') <=> (b \in DOMAIN squat_state)
            /\ (b \in DOMAIN squat_count') <=> (b \in DOMAIN squat_count)
            /\ b \in DOMAIN squat_state =>
                   /\ squat_state'[b] = squat_state[b]
                   /\ squat_count'[b] = squat_count[b]

\* C4: under any interleaving of the updates of two identities, an update for
\* one leaves the other's phase and count unchanged, and each identity ends
\* with the phase and count its own angle sequence alone produces.
C4_IndependentIdentities == [][C4_OthersUntouched]_vars /\ []C4_FinalAsAlone

\* interleaved updates: identity 1 completes a repetition while identity 2 is DOWN
C4_Witness ==
    /\ Len(calls) = 4
    /\ calls[1].id = 1 /\ calls[2].id = 2 /\ calls[3].id = 1 /\ calls[4].id = 2
    /\ calls[3].count = 1
    /\ squat_count[1] = 1 /\ squat_state[1] = "UP"
    /\ squat_count[2] = 0 /\ squat_state[2] = "DOWN"

\* C5: applying the squat update twice in a row with the same angle leaves the
\* phase and count the first application produced, for every identity state
\* and every knee angle.
C5_RepeatedAngleIdempotent ==
    /\ \A id \in TrackIds, a \in KneeAngles :
           LET r1 == SquatUpdate(squat_state, squat_count, id, a)
               r2 == SquatUpdate(r1.state, r1.count, id, a)
           IN r2 = r1
    /\ \A id \in TrackIds :
           LET h == CallsOf(id)
           IN \A m \in 2..Len(h) :
                  h[m].angle = h[m - 1].angle =>
                      (h[m].phase = h[m - 1].phase /\ h[m].count = h[m - 1].count)

\* the angle that completed a repetition is applied a second time
C5_Witness ==
    \E id \in TrackIds :
        LET h == CallsOf(id)
        IN /\ Len(h) = 3
           /\ h[1].phase = "DOWN"
           /\ h[2].angle > Deg(UPPER_THRESHOLD) /\ h[2].count = 1
           /\ h[3].angle = h[2].angle
           /\ squat_count[id] = 1

----------------------------------------------------------------------------
(* Fall alerts *)

\* the persons of the current frame are being, or have been, processed
InFrame == pc \in {"pose", "show"} /\ results.keypoints = "data"

\* person k of the frame passed the landmark check and leans more than 45 degrees
Falls(k) ==
    /\ results.persons[k].len >= NUM_LANDMARKS
    /\ Inclination(results.persons[k]) > Deg(FALL_THRESHOLD)

\* the persons processed so far in this frame that met the fall condition
Fallen == {k \in 1..i : Falls(k)}

Max(S) == CHOOSE x \in S : \A y \in S : y <= x

\* line 69: the alert is drawn
Active == current_alert # "" /\ alert_timer > 0

\* the shoulder midpoint is straight above the hip midpoint in the image
VerticalTorso(kps) ==
    LET mid_shoulder == Midpoint(kps.l_shldr, kps.r_shldr)
        mid_hip == Midpoint(kps.l_hip, kps.r_hip)
    IN mid_shoulder[1] = mid_hip[1] /\ mid_shoulder[2] < mid_hip[2]

\* C6: a person whose shoulder midpoint is straight above the hip midpoint
\* (mid-shoulder (100, 50), mid-hip (100, 150)) has inclination 0 and
\* processing that person raises no fall alert.
C6_VerticalTorsoNoAlert ==
    (InFrame /\ Len(results.persons) = 1 /\ i = 1
        /\ results.persons[1].len >= NUM_LANDMARKS
        /\ VerticalTorso(results.persons[1])) =>
        /\ Inclination(results.persons[1]) = 0
        /\ alert_timer < ALERT_DURATION

C7_PersonStep ==
    (pc = "pose" /\ i' = i + 1) =>
        LET kps == results.persons[i + 1]
            person_id == Ids(results)[i + 1]
        IN IF kps.len >= NUM_LANDMARKS /\ Inclination(kps) > Deg(FALL_THRESHOLD)
           THEN current_alert' = AlertMessage(person_id) /\ alert_timer' = ALERT_DURATION
           ELSE UNCHANGED <<current_alert, alert_timer>>

C7_RaisedIffFallen ==
    InFrame => ((alert_timer = ALERT_DURATION) <=> (Fallen # {}))

\* C7: processing a person raises the alert (message naming the person,
\* countdown 30) if and only if that person's inclination, computed from the
\* landmarks of the current frame, is strictly above 45 degrees; exactly 45
\* degrees raises none.
C7_AlertIffInclinationAbove45 == [][C7_PersonStep]_vars /\ []C7_RaisedIffFallen

\* a person leaning 63.4 degrees raised the alert and the next person, at
\* exactly 45 degrees, left it alone
C7_Witness ==
    /\ pc = "pose" /\ results.keypoints = "data" /\ i = 2
    /\ Inclination(results.persons[1]) = 63435
    /\ Inclination(results.persons[2]) = Deg(FALL_THRESHOLD)
    /\ current_alert = AlertMessage(Ids(results)[1])
    /\ alert_timer = ALERT_DURATION

\* C8 as claimed: after an alert is raised with duration d, it is active after
\* each of the first d-1 ticks and empty after the d-th tick and later ticks.
C8_EmptyAfterDurationTicks ==
    /\ (1 <= ticks /\ ticks <= ALERT_DURATION - 1) => Active
    /\ ticks >= ALERT_DURATION => (current_alert = "" /\ alert_timer = 0)

\* C8 (amended): after an alert is raised with duration d, it is active after
\* each of the first d-1 ticks; after the d-th tick the countdown is 0 and the
\* alert is no longer active, but its message is still stored; the (d+1)-th
\* tick clears the message, and the alert stays empty after every later tick.
C8_InactiveAfterDurationClearedNext ==
    /\ ticks = 0 => (Active /\ alert_timer = ALERT_DURATION)
    /\ (1 <= ticks /\ ticks <= ALERT_DURATION - 1) =>
           (Active /\ alert_timer = ALERT_DURATION - ticks)
    /\ ticks = ALERT_DURATION => (~Active /\ alert_timer = 0 /\ current_alert # "")
    /\ ticks > ALERT_DURATION => (current_alert = "" /\ alert_timer = 0)

\* d+1 ticks after a raise: the message has just been cleared
C8_Witness ==
    /\ ticks = ALERT_DURATION + 1
    /\ pc = "pose" /\ i = 0
    /\ current_alert = "" /\ alert_timer = 0

\* C9 as claimed: right after a tick, remaining count 0 implies the message
\* is empty.
C9_ZeroCountMeansCleared ==
    (pc = "pose" /\ i = 0) => (alert_timer = 0 => current_alert = "")

C9_TickStep ==
    (pc = "hud" /\ pc' = "pose") =>
        /\ (current_alert # "" /\ alert_timer = 1) =>
               (alert_timer' = 0 /\ current_alert' = current_alert)
        /\ alert_timer = 0 => (alert_timer' = 0 /\ current_alert' = "")
        /\ (current_alert # "" /\ alert_timer > 1) =>
               (alert_timer' = alert_timer - 1 /\ current_alert' = current_alert)

\* C9 (amended): the message is cleared one tick after the countdown reaches
\* zero: the tick that takes the count from 1 to 0 keeps the message, and a
\* tick that finds the count at 0 leaves the message empty.
C9_ClearedByNextTick == [][C9_TickStep]_vars

\* right after the tick that brought the countdown to zero
C9_Witness ==
    /\ pc = "pose" /\ i = 0
    /\ alert_timer = 0
    /\ current_alert # ""
    /\ ticks = ALERT_DURATION

\* C10: once one or more persons of a frame met the fall condition, the alert
\* names the last of them in processing order and the countdown is the full
\* duration, whatever the alert held before the frame.
C10_LastFallWins ==
    (InFrame /\ Fallen # {}) =>
        /\ current_alert = AlertMessage(Ids(results)[Max(Fallen)])
        /\ alert_timer = ALERT_DURATION

\* two persons fell in one frame; the second one's message survives
C10_Witness ==
    /\ pc = "show" /\ results.keypoints = "data"
    /\ Fallen = {1, 2}
    /\ Ids(results) = <<1, 2>>
    /\ current_alert = AlertMessage(2)
    /\ alert_timer = ALERT_DURATION

----------------------------------------------------------------------------
(* Order of the tick and the person updates within a frame *)

\* process_pose has returned for the current frame and its persons were looped over
FrameEnded ==
    /\ pc \in {"show", "acquire", "done"}
    /\ results.keypoints = "data"
    /\ i = Len(results.persons)

\* C11 as claimed: the tick comes after the per-person updates of the frame, so
\* an alert raised while analysing a frame has been ticked once when the
\* frame's processing ends and the next frame is acquired.
C11_RaisedAlertTickedAtFrameEnd ==
    (FrameEnded /\ Fallen # {}) =>
        (ticks = 1 /\ alert_timer = ALERT_DURATION - 1)

C11_TickBeforePersons ==
    /\ (pc = "hud") => (pc' = "pose" /\ i' = 0)
    /\ (alert_timer' < alert_timer \/ ticks' = ticks + 1) => (pc = "hud" /\ pc' = "pose")
    /\ (i' = i + 1) => (pc = "pose" /\ pc' = "pose" /\ alert_timer' >= alert_timer)

C11_RaisedAlertUntickedAtFrameEnd ==
    (FrameEnded /\ Fallen # {}) =>
        (ticks = 0 /\ alert_timer = ALERT_DURATION)

\* C11 (amended): within each frame the alert tick is performed before the
\* per-person updates of that frame (order: detection, alert tick, geometry and
\* state updates), so an alert raised while analysing a frame has not been
\* ticked when that frame's processing ends and the next frame is acquired:
\* its countdown is still the full 30.
C11_TickPrecedesPersonUpdates ==
    [][C11_TickBeforePersons]_vars /\ []C11_RaisedAlertUntickedAtFrameEnd

\* the next frame is about to be acquired and the alert raised in the frame
\* just processed still has its full countdown
C11_Witness ==
    /\ pc = "acquire"
    /\ FrameEnded
    /\ Fallen # {}
    /\ ticks = 0
    /\ alert_timer = ALERT_DURATION

----------------------------------------------------------------------------
(* Observations with too few landmarks *)

C12_SkipStep ==
    (pc = "pose" /\ i' = i + 1 /\ results.persons[i + 1].len < NUM_LANDMARKS) =>
        /\ UNCHANGED <<squat_state, squat_count, current_alert, alert_timer>>
        /\ pc' = "pose"

\* every person of the frame looped over so far with 17 landmarks has a record
C12_OthersProcessed ==
    InFrame =>
        \A k \in 1..i :
            results.persons[k].len >= NUM_LANDMARKS =>
                /\ Ids(results)[k] \in DOMAIN squat_state
                /\ Ids(results)[k] \in DOMAIN squat_count
                /\ Falls(k) => alert_timer = ALERT_DURATION

\* C12: a person observation with fewer than 17 landmarks is skipped: it
\* changes no squat phase and no count, creates no record for its identity and
\* raises no alert, while the other persons of the frame are still processed.
C12_ShortObservationSkipped == [][C12_SkipStep]_vars /\ []C12_OthersProcessed

\* identity 1 was skipped (no record), identity 2 of the same frame was
\* processed after it and raised the alert
C12_Witness ==
    /\ InFrame /\ i = 2
    /\ results.persons[1].len < NUM_LANDMARKS
    /\ results.persons[2].len >= NUM_LANDMARKS
    /\ Ids(results) = <<1, 2>>
    /\ DOMAIN squat_state = {2}
    /\ current_alert = AlertMessage(2)

----------------------------------------------------------------------------
(* Persons without a tracking identity *)

CountOf(id) == IF id \in DOMAIN squat_count THEN squat_count[id] ELSE 0

C13_UntrackedStep ==
    (pc = "pose" /\ i' = i + 1 /\ ~results.tracked
        /\ results.persons[i + 1].len >= NUM_LANDMARKS) =>
        LET angle == KneeAngle(results.persons[i + 1])
        IN /\ DOMAIN squat_state' = DOMAIN squat_state \cup {UNTRACKED}
           /\ DOMAIN squat_count' = DOMAIN squat_count \cup {UNTRACKED}
           /\ \A b \in DOMAIN squat_state \ {UNTRACKED} :
                  squat_state'[b] = squat_state[b] /\ squat_count'[b] = squat_count[b]
           \* the first person, knee below 110: sentinel DOWN, count as before the frame
           /\ (i = 0 /\ angle < Deg(SQUAT_THRESHOLD)) =>
                  (squat_state'[UNTRACKED] = "DOWN" /\ squat_count'[UNTRACKED] = CountOf(UNTRACKED))
           \* the second person, knee above 160, after such a first person
           /\ (i = 1 /\ results.persons[1].len >= NUM_LANDMARKS
                 /\ KneeAngle(results.persons[1]) < Deg(SQUAT_THRESHOLD)
                 /\ angle > Deg(UPPER_THRESHOLD)) =>
                  (squat_state'[UNTRACKED] = "UP"
                     /\ squat_count'[UNTRACKED] = squat_count[UNTRACKED] + 1)

C13_SentinelOnly ==
    (InFrame /\ ~results.tracked) => \A k \in 1..Len(results.persons) : Ids(results)[k] = UNTRACKED

\* C13: without tracking identities every person of the frame is processed
\* under the sentinel identity -1 and shares one squat record; two untracked
\* persons in one frame, the first with knee angle below 110 and the second
\* above 160, raise the sentinel's count by one within that frame.
C13_UntrackedShareOneRecord == [][C13_UntrackedStep]_vars /\ []C13_SentinelOnly

\* the first frame ever: two untracked persons, knee at 90 and then at 180,
\* counted as one repetition of identity -1
C13_Witness ==
    /\ InFrame /\ ~results.tracked /\ i = 2
    /\ KneeAngle(results.persons[1]) = Deg(90)
    /\ KneeAngle(results.persons[2]) = Deg(180)
    /\ DOMAIN squat_count = {UNTRACKED}
    /\ squat_count[UNTRACKED] = 1
    /\ squat_state[UNTRACKED] = "UP"

----------------------------------------------------------------------------
(* Range and symmetry of calculate_angle *)

\* the difference of the two arctan2 values, before abs and the wrap at 180
RawDifference ==
    Atan2Deg(args[3][2] - args[2][2], args[3][1] - args[2][1])
        - Atan2Deg(args[1][2] - args[2][2], args[1][1] - args[2][1])

\* C14: for all points a, b, c, calculate_angle(a, b, c) lies in [0, 180] degrees.
C14_AngleInRange ==
    \A k \in 1..Len(ret) : 0 <= ret[k] /\ ret[k] <= Deg(180)

\* the arctan2 difference was 270 degrees and was folded back to 90
C14_Witness ==
    /\ Len(ret) >= 1
    /\ Abs(RawDifference) = Deg(270)
    /\ ret[1] = Deg(90)

\* C15: for all points a, b, c, calculate_angle(a, b, c) = calculate_angle(c, b, a).
C15_AngleSymmetric ==
    Len(ret) = 2 => ret[1] = ret[2]

\* both orders were evaluated on three distinct points, where the raw
\* difference is negative one way round and positive the other
C15_Witness ==
    /\ Len(ret) = 2
    /\ RawDifference = 0 - Deg(135)
    /\ ret[1] = Deg(135) /\ ret[2] = Deg(135)

----------------------------------------------------------------------------
(* One tick per acquired frame *)

\* the HUD step of a frame takes one off a positive count, whatever the frame holds
C16_HudTicks ==
    pc = "hud" =>
        /\ pc' = "pose"
        /\ alert_timer' = IF alert_timer > 0 THEN alert_timer - 1 ELSE 0

\* no other step of the loop lowers the count
C16_OnlyHudLowers ==
    alert_timer' < alert_timer => pc = "hud"

\* a frame is acquired, passes the HUD step once, is processed, shown, and only
\* then is the next one acquired
C16_OneHudPerFrame ==
    /\ (pc = "acquire" /\ pc' # "acquire") => pc' \in {"hud", "done"}
    /\ (pc' = "hud" /\ pc # "hud") => pc = "acquire"
    /\ (pc' = "pose" /\ pc # "pose") => pc = "hud"
    /\ (pc' = "show" /\ pc # "show") => pc = "pose"
    /\ (pc' = "acquire" /\ pc # "acquire") => pc = "show"

\* C16: the alert tick runs exactly once for every acquired frame, whatever the
\* frame holds (no results, no persons, only skipped persons): a positive
\* remaining count is lowered by exactly one.
C16_TickOncePerFrame ==
    [][C16_HudTicks /\ C16_OnlyHudLowers /\ C16_OneHudPerFrame]_vars

\* a frame without detection results has been through the loop and the alert
\* raised two frames earlier has lost its second tick in it
C16_Witness ==
    /\ pc = "show"
    /\ results.keypoints = "none"
    /\ ticks = 2
    /\ alert_timer = ALERT_DURATION - 2
    /\ current_alert # ""

----------------------------------------------------------------------------
(* Lifetime of a squat record *)

\* the step processes person i + 1 of the frame in full
Processes ==
    /\ pc = "pose" /\ results.keypoints = "data"
    /\ i < Len(results.persons) /\ i' = i + 1
    /\ ~Skipped(results.persons[i + 1])

\* a first observation creates the record: count 0, DOWN below 110, UP otherwise
C17_CreatedOnFirstObservation ==
    Processes =>
        LET person_id == Ids(results)[i + 1]
            knee_angle == KneeAngle(results.persons[i + 1])
        IN /\ DOMAIN squat_state' = DOMAIN squat_state \cup {person_id}
           /\ person_id \notin DOMAIN squat_state =>
                /\ squat_count'[person_id] = 0
                /\ squat_state'[person_id] =
                       IF knee_angle < Deg(SQUAT_THRESHOLD) THEN "DOWN" ELSE "UP"

\* records appear in no other step, and none is ever removed
C17_NeverRemoved ==
    /\ DOMAIN squat_state \subseteq DOMAIN squat_state'
    /\ DOMAIN squat_count' = DOMAIN squat_state'
    /\ ~Processes => DOMAIN squat_state' = DOMAIN squat_state

\* a record changes only in the step that processes its own identity
C17_ChangedOnlyByOwnObservation ==
    \A k \in DOMAIN squat_state :
        (squat_state'[k] # squat_state[k] \/ squat_count'[k] # squat_count[k])
            => Processes /\ Ids(results)[i + 1] = k

\* C17: an identity has no record before its first processed observation; that
\* observation leaves count 0 and phase DOWN if its angle was below 110, UP
\* otherwise; a record is never removed, and frames without the identity leave
\* it unchanged.
C17_LazyRecordKeptForever ==
    [][C17_CreatedOnFirstObservation /\ C17_NeverRemoved
         /\ C17_ChangedOnlyByOwnObservation]_vars

\* identity 2 got its record (DOWN, 0) in an earlier frame and identity 1 its own
\* (UP, 0) in this frame, which 2 is absent from
C17_Witness ==
    /\ pc = "show"
    /\ results.tracked /\ results.ids = <<1>>
    /\ DOMAIN squat_state = {1, 2}
    /\ squat_state[2] = "DOWN" /\ squat_count[2] = 0
    /\ squat_state[1] = "UP" /\ squat_count[1] = 0

----------------------------------------------------------------------------
(* Landmarks reported at the origin *)

LegAtOrigin(kps) ==
    kps.r_hip = <<0, 0>> /\ kps.r_knee = <<0, 0>> /\ kps.r_ankle = <<0, 0>>

\* a processed observation with the right leg at the origin is read as knee
\* angle 0, and leaves its identity DOWN with the count it had
C18_OriginReadAsZero ==
    (Processes /\ LegAtOrigin(results.persons[i + 1])) =>
        LET person_id == Ids(results)[i + 1]
        IN /\ KneeAngle(results.persons[i + 1]) = 0
           /\ squat_state'[person_id] = "DOWN"
           /\ squat_count'[person_id] = CountOf(person_id)

\* the phase DOWN lasts until the identity's next processed observation
C18_DownKept ==
    \A k \in DOMAIN squat_state :
        (squat_state[k] = "DOWN" /\ ~(Processes /\ Ids(results)[i + 1] = k))
            => squat_state'[k] = "DOWN"

\* an observation above 160 of an identity that is DOWN adds one to its count
C18_StraightLegCounts ==
    Processes =>
        LET person_id == Ids(results)[i + 1]
        IN (/\ person_id \in DOMAIN squat_state
            /\ squat_state[person_id] = "DOWN"
            /\ KneeAngle(results.persons[i + 1]) > Deg(UPPER_THRESHOLD))
               => /\ squat_count'[person_id] = squat_count[person_id] + 1
                  /\ squat_state'[person_id] = "UP"

\* C18: landmarks are used unvalidated: a processed observation whose right
\* hip, knee and ankle are all at the origin is evaluated as knee angle 0 and
\* moves the identity to DOWN, so that a following observation with knee angle
\* above 160 increments the identity's count.
C18_OriginCountsAsSquat ==
    [][C18_OriginReadAsZero /\ C18_DownKept /\ C18_StraightLegCounts]_vars

\* an untracked frame held a person at the origin and then one with a straight
\* leg: the shared record went DOWN on the first and counted a repetition on
\* the second
C18_Witness ==
    /\ pc = "show"
    /\ ~results.tracked /\ results.persons = <<Origin, HeadDown>>
    /\ DOMAIN squat_state = {UNTRACKED}
    /\ squat_state[UNTRACKED] = "UP" /\ squat_count[UNTRACKED] = 1

----------------------------------------------------------------------------
(* The alert state *)

\* C19: in every reachable state the remaining count is an integer with
\* 0 <= count <= 30, and a positive count implies a non-empty message.
C19_TimerBoundedAndOwned ==
    /\ alert_timer \in 0..ALERT_DURATION
    /\ alert_timer > 0 => current_alert # ""

\* the HUD step is about to take the last unit off the count of a shown alert
C19_Witness ==
    /\ pc = "hud"
    /\ alert_timer = 1
    /\ current_alert # ""
    /\ ticks = ALERT_DURATION - 1

----------------------------------------------------------------------------
(* Expiry of the alert *)

\* some person of the current frame is processed and meets the fall condition
FrameFalls ==
    /\ results.keypoints = "data"
    /\ \E k \in 1..Len(results.persons) : Falls(k)

Empty == current_alert = "" /\ alert_timer = 0

\* the loop never ends: no failed read, no 'q'
FramesKeepArriving == [](pc # "done")

\* frames keep arriving and from some frame on none falls: the alert ends up
\* empty for good
C20_ExpiresWithoutFalls ==
    (FramesKeepArriving /\ <>[]~FrameFalls) => <>[]Empty

\* every frame holds a fall: an alert, once raised, stays drawn
C20_KeptAliveByFalls ==
    [](pc \in {"hud", "pose", "show"} => FrameFalls) => [](Active => []Active)

\* C20: if frames keep arriving and from some frame onward no processed person
\* meets the fall condition, the alert eventually becomes empty (count 0,
\* message cleared) and stays empty; conversely, while some person meets the
\* fall condition in every frame, the alert never expires.
C20_AlertExpiresIffFallsStop ==
    C20_ExpiresWithoutFalls /\ C20_KeptAliveByFalls

\* the tick that follows the count reaching 0 has just cleared a raised alert,
\* in a frame without a fall
C20_Witness ==
    /\ pc = "show"
    /\ ~FrameFalls
    /\ Empty
    /\ ticks = ALERT_DURATION + 1

====
